---- MODULE Spec2Model ----
(***************************************************************************)
(* A model of the protection agent of spicy-cat (src/lib/agent_shield.py): *)
(* the signal store, the audit log, the threat scorer, the response        *)
(* composer, the background control loop and the start/stop lifecycle.     *)
(*                                                                         *)
(* Time is the wall clock in seconds.  Confidence is kept in tenths        *)
(* (conf = 9 is 0.9) and severity in tenths (40 is 4.0), so that a score   *)
(* is an exact integer in units of 1/(300*10*10).                          *)
(***************************************************************************)
EXTENDS Integers, Sequences, FiniteSets, TLC

\* ------------------------------------------------------------------ bounds

TimeUnit == 150
MaxTicks == 3
MaxReports == 2
MaxPasses == 2
MaxCalls == 3
MaxErrors == 1
MaxObservers == 2
MaxScoreLen == 4
MaxDraws == 2
MaxSeed == 2

\* -------------------------------------------------------------- identities

LoopIds == {1, 2}
CallerIds == {"c1"}
DetectorIds == {"d1"}
StatusIds == {"s1"}
NoThread == 0
NoTime == -1

Max(a, b) == IF a >= b THEN a ELSE b

\* ------------------------------------------------------- enumerated types

CALM == "calm"
ELEVATED == "elevated"
HIGH == "high"
CRITICAL == "critical"
ThreatLevel == {CALM, ELEVATED, HIGH, CRITICAL}

LevelRank(l) ==
    CASE l = CALM -> 0 [] l = ELEVATED -> 1 [] l = HIGH -> 2 [] l = CRITICAL -> 3

DetectionType ==
    {"canvas_fingerprint", "webgl_enumeration", "font_measurement_probe",
     "audio_fingerprint", "webrtc_stun_request", "known_tracker_domain",
     "telemetry_beacon", "cookie_sync_pixel", "plugin_enumeration",
     "tls_fingerprint_probe"}

TelemetryMethod ==
    {"phantom_device_swarm", "temporal_drift_engine", "geolocation_carousel",
     "dns_chaff_generator", "beacon_entropy_mixer", "tls_handshake_shuffler",
     "http_cookie_chimera", "useragent_metamorph", "referrer_chain_fabricator",
     "telemetry_feedback_loop"}

\* ------------------------------------------------------------ threat scorer

\* severity table of evaluate_threat, in tenths (default 1.0 for an unknown type)
Severity(typ) ==
    CASE typ = "canvas_fingerprint" -> 30
      [] typ = "webgl_enumeration" -> 25
      [] typ = "font_measurement_probe" -> 20
      [] typ = "audio_fingerprint" -> 30
      [] typ = "webrtc_stun_request" -> 40
      [] typ = "known_tracker_domain" -> 10
      [] typ = "telemetry_beacon" -> 15
      [] typ = "cookie_sync_pixel" -> 20
      [] typ = "plugin_enumeration" -> 20
      [] typ = "tls_fingerprint_probe" -> 25
      [] OTHER -> 10

MaxAge == 300
RecencySpan == 300

\* one score unit (1.0) in the integer representation: recency is kept in
\* 1/RecencySpan, confidence and severity in tenths
ScoreUnit == RecencySpan * 10 * 10

\* a recency weight that decays to nothing: 1.0 - age / 300.0 without the floor
RecencyNoFloor(age) == RecencySpan - age

\* recency = max(0.1, 1.0 - age / 300.0), in units of 1/RecencySpan
Recency(age) == Max(RecencySpan \div 10, RecencySpan - age)

\* a term that weighs a signal by its doubt (1.0 - confidence)
ContributionByDoubt(s, t) ==
    LET age == t - s.ts
    IN  IF age > MaxAge THEN 0
        ELSE Recency(age) * (10 - s.conf) * Severity(s.typ)

\* the body of the for loop of evaluate_threat for one signal
Contribution(s, t) ==
    LET age == t - s.ts
    IN  IF age > MaxAge THEN 0
        ELSE Recency(age) * s.conf * Severity(s.typ)

RECURSIVE Score(_, _)
Score(sigs, t) ==
    IF sigs = <<>> THEN 0
    ELSE Contribution(Head(sigs), t) + Score(Tail(sigs), t)

\* the threshold ladder of evaluate_threat
LevelOfScore(score) ==
    IF score < 2 * ScoreUnit THEN CALM
    ELSE IF score < 6 * ScoreUnit THEN ELEVATED
    ELSE IF score < 15 * ScoreUnit THEN HIGH
    ELSE CRITICAL

EvaluateThreat(sigs, t) ==
    IF sigs = <<>> THEN CALM ELSE LevelOfScore(Score(sigs, t))


\* -------------------------------------------------------- response composer

\* the chaos draws the composer reads: whether |noise[1]| > 0.5 and
\* |noise[2]| in tenths
TimingDraws == {0, 10}
NoiseDraws == [diversity : BOOLEAN, timing : TimingDraws]

BaseMethods(l) ==
    CASE l = CALM -> {"dns_chaff_generator"}
      [] l = ELEVATED -> {"dns_chaff_generator", "http_cookie_chimera",
                          "useragent_metamorph", "temporal_drift_engine"}
      [] l = HIGH -> {"dns_chaff_generator", "http_cookie_chimera",
                      "useragent_metamorph", "temporal_drift_engine",
                      "phantom_device_swarm", "tls_handshake_shuffler",
                      "referrer_chain_fabricator"}
      [] l = CRITICAL -> TelemetryMethod

BaseInterval(l) ==
    CASE l = CALM -> 3600 [] l = ELEVATED -> 1800 [] l = HIGH -> 600
      [] l = CRITICAL -> 120

BasePhantoms(l) ==
    CASE l = CALM -> 0 [] l = ELEVATED -> 3 [] l = HIGH -> 10 [] l = CRITICAL -> 20

\* a rotate flag that follows the draw at CRITICAL as it does at HIGH
BaseRotateByDraw(l, noise) ==
    CASE l = CALM -> FALSE [] l = ELEVATED -> FALSE
      [] l = HIGH -> noise.diversity [] l = CRITICAL -> noise.diversity

BaseRotate(l, noise) ==
    CASE l = CALM -> FALSE [] l = ELEVATED -> FALSE
      [] l = HIGH -> noise.diversity [] l = CRITICAL -> TRUE

\* int(rotation_interval * (0.7 + timing_noise * 0.6))
DecideResponse(l, noise) ==
    [rotate_fingerprint |-> BaseRotate(l, noise),
     active_methods |-> BaseMethods(l),
     phantom_count |-> BasePhantoms(l),
     rotation_interval |-> (BaseInterval(l) * (70 + 6 * noise.timing)) \div 100]

NoResponse == [rotate_fingerprint |-> FALSE, active_methods |-> {},
               phantom_count |-> 0, rotation_interval |-> 0]

DequeMax == 100

\* a list that keeps everything appended to it
ListAppend(h, e) == Append(h, e)

\* append to a deque(maxlen=100): when full, the oldest entry is dropped
DequeAppend(h, e) ==
    IF Len(h) >= DequeMax THEN Append(Tail(h), e) ELSE Append(h, e)

\* ------------------------------------------------------------------- state

VARIABLES
    now,          \* wall clock, seconds
    signals,      \* self._threat_signals
    actions,      \* self._actions (the action types, in order)
    level,        \* self._current_threat_level
    response,     \* self._current_response (NoResponse models {})
    running,      \* self._running
    thread,       \* self._thread (NoThread models None)
    lock,         \* owner of self._lock, NoThread when free
    callbacks,    \* number of registered observers, self._callbacks = <<1..n>>
    rotations,    \* self._fingerprint_rotations
    mitigated,    \* self._threats_mitigated
    lastRotation, \* self._last_rotation (NoTime models None)
    history,      \* decision_engine._decision_history
    engineMethods,\* telemetry_engine._active_methods
    profiles,     \* number of rotate_profile() calls that returned
    loop,         \* the loop threads: program counter and locals
    caller,       \* the threads calling start(), stop() and the check_* methods
    spawned,      \* number of loop threads created so far
    reported,     \* history: every signal report_signal appended
    logged,       \* history: every action type _log_action was called with
    lastNotify,   \* history: the last _notify call (observers invoked, in order)
    nstops,       \* history: number of stop() calls that cleared the flag
    ncalls,       \* number of start()/stop() calls made
    npasses,      \* number of loop iterations begun
    errs,         \* number of collaborator failures injected
    chaos         \* the chaos sources constructed so far, and what they returned

vars == <<now, signals, actions, level, response, running, thread, lock,
          callbacks, rotations, mitigated, lastRotation, history,
          engineMethods, profiles, loop, caller, spawned, reported, logged,
          lastNotify, nstops, ncalls, npasses, errs, chaos>>

\* the agent's own fields (what an observer or a redundant stop() could corrupt)
agentState == <<signals, actions, level, response, running, thread,
                rotations, mitigated, lastRotation, history>>

\* a loop thread: pc and the locals of _evaluate_and_respond, plus history
\* fields: did (what the current pass has done so far), quiet (the pass began
\* with every reported signal past the retention window and nothing has been
\* reported since), born (stop() calls made before the thread was started),
\* errd (the thread's handler has caught an error)
IdleLoop == [pc |-> "unborn", tmp |-> <<>>, newLevel |-> CALM,
             resp |-> NoResponse, did |-> {}, quiet |-> FALSE, born |-> 0,
             errd |-> FALSE]
IdleCaller == [pc |-> "idle", redundant |-> FALSE]
\* a thread calling check_domain, check_url or check_script_content: the
\* patterns still to be looked at and the signals to be returned (kept
\* after the call has returned, as its return value)
IdleDetector == [pc |-> "idle", todo |-> <<>>, returned |-> <<>>]

\* a thread calling get_status: the dictionary under construction (kept
\* after the call has returned, as its return value)
NoSnapshot == [recent |-> 0, level |-> CALM, methods |-> {}, total |-> 0]
IdleStatus == [pc |-> "idle", snap |-> NoSnapshot, returned |-> FALSE]

\* the chaos sources a test constructs side by side
ChaosIds == {1, 2}

\* a chaos source not constructed yet
NoSource == [kind |-> "none", seed |-> 0, x |-> 0, y |-> 0, z |-> 0,
             ops |-> <<>>, out |-> <<>>]

\* ProtectionAgent.__init__, apart from the clock and the signal store
InitAgent ==
    /\ chaos = [i \in ChaosIds |-> NoSource]
    /\ actions = <<>>
    /\ level = CALM
    /\ response = NoResponse
    /\ running = FALSE
    /\ thread = NoThread
    /\ lock = NoThread
    /\ callbacks = 0
    /\ rotations = 0
    /\ mitigated = 0
    /\ lastRotation = NoTime
    /\ history = <<>>
    /\ engineMethods = TelemetryMethod
    /\ profiles = 0
    /\ loop = [t \in LoopIds |-> IdleLoop]
    /\ caller = [c \in CallerIds \cup DetectorIds \cup StatusIds |->
                    IF c \in CallerIds THEN IdleCaller
                    ELSE IF c \in DetectorIds THEN IdleDetector
                    ELSE IdleStatus]
    /\ spawned = 0
    /\ logged = <<>>
    /\ lastNotify = [complete |-> TRUE, raisedEarly |-> FALSE, propagated |-> FALSE]
    /\ nstops = 0
    /\ ncalls = 0
    /\ npasses = 0
    /\ errs = 0

Init ==
    /\ now = 0
    /\ signals = <<>>
    /\ reported = <<>>
    /\ InitAgent

\* ----------------------------------------------------------------- helpers

\* a lock that never makes anybody wait
LockIgnored == TRUE

\* with self._lock: the lock can be taken only when nobody holds it
LockAvailable == lock = NoThread

\* _log_action: one AgentAction appended under the lock
LogAction(kind) ==
    /\ LockAvailable
    /\ actions' = Append(actions, kind)
    /\ logged' = Append(logged, kind)

PurgeWindow == 300

\* a purge that removes nothing
PurgeNothing(sigs, cutoff) == sigs

\* the list comprehension of _evaluate_and_respond: keep s.timestamp > cutoff
RECURSIVE Purge(_, _)
Purge(sigs, cutoff) ==
    IF sigs = <<>> THEN <<>>
    ELSE IF Head(sigs).ts > cutoff
         THEN <<Head(sigs)>> \o Purge(Tail(sigs), cutoff)
         ELSE Purge(Tail(sigs), cutoff)

\* an observer call with no try/except around it
InvokeCallbackNoCatch(i, raisers) == IF i \in raisers THEN "raised" ELSE "ok"

\* try: cb(event_type, data) / except Exception: pass
InvokeCallback(i, raisers) == IF i \in raisers THEN "caught" ELSE "ok"

\* the for loop of _notify over self._callbacks, from observer i on
RECURSIVE NotifyFrom(_, _, _)
NotifyFrom(i, n, raisers) ==
    IF i > n THEN [invoked |-> <<>>, propagated |-> FALSE]
    ELSE IF InvokeCallback(i, raisers) = "raised"
         THEN [invoked |-> <<i>>, propagated |-> TRUE]
         ELSE LET rest == NotifyFrom(i + 1, n, raisers)
              IN  [invoked |-> <<i>> \o rest.invoked,
                   propagated |-> rest.propagated]

\* one _notify call, summarised: were all registered observers invoked, once
\* each and in order; did an observer other than the last one raise; did an
\* exception leave _notify
Notify(raisers) ==
    LET r == NotifyFrom(1, callbacks, raisers)
    IN  [complete |-> r.invoked = [i \in 1..callbacks |-> i],
         raisedEarly |-> \E i \in raisers : i < callbacks,
         propagated |-> r.propagated]

\* a loop whose except branch leaves the while loop
HandlerLeaves == "exited"

\* except Exception as e: log, time.sleep(5), and back to the while test
HandlerTarget == "backoff"

SetLoop(t, r) == loop' = [loop EXCEPT ![t] = r]

\* a loop thread between iterations: the locals of the pass are gone
AtRest(t, pc) ==
    [IdleLoop EXCEPT !.pc = pc, !.born = loop[t].born, !.errd = loop[t].errd]

\* the except branch of _agent_loop has caught an exception of the pass
Caught(t) == [AtRest(t, HandlerTarget) EXCEPT !.errd = TRUE]

\* the steps of _execute_response whose condition holds for a directive
StepsDue(resp) ==
    (IF resp.rotate_fingerprint THEN {"rotate"} ELSE {})
    \cup (IF resp.active_methods # {} THEN {"methods"} ELSE {})
    \cup (IF resp.phantom_count > 0 THEN {"phantom"} ELSE {})

\* ---------------------------------------------------------- the agent loop

\* where a loop thread is when it next evaluates `while self._running`: just
\* started, after time.sleep(wait), or after the time.sleep(5) of the handler
RestingPcs == {"start", "sleep", "backoff"}

\* while self._running: (true) -- the sleep is over and an iteration begins
LoopEnter(t) ==
    /\ loop[t].pc \in RestingPcs
    /\ running
    /\ npasses < MaxPasses
    /\ npasses' = npasses + 1
    /\ SetLoop(t, AtRest(t, "purge"))
    /\ UNCHANGED <<chaos, now, signals, actions, level, response, running, thread,
                   lock, callbacks, rotations, mitigated, lastRotation,
                   history, engineMethods, profiles, caller, spawned, reported,
                   logged, lastNotify, nstops, ncalls, errs>>

\* while self._running: (false) -- the thread ends
LoopExit(t) ==
    /\ loop[t].pc \in RestingPcs
    /\ ~running
    /\ SetLoop(t, AtRest(t, "exited"))
    /\ UNCHANGED <<chaos, now, signals, actions, level, response, running, thread,
                   lock, callbacks, rotations, mitigated, lastRotation,
                   history, engineMethods, profiles, caller, spawned, reported,
                   logged, lastNotify, nstops, ncalls, npasses, errs>>

\* with self._lock: cutoff = now - 5 min; the comprehension reads the store
PurgeRead(t) ==
    /\ loop[t].pc = "purge"
    /\ LockAvailable
    /\ lock' = t
    /\ SetLoop(t, [loop[t] EXCEPT
            !.pc = "score",
            !.tmp = Purge(signals, now - PurgeWindow),
            !.quiet = \A i \in 1..Len(reported) : now - reported[i].ts > PurgeWindow])
    /\ UNCHANGED <<chaos, now, signals, actions, level, response, running, thread,
                   callbacks, rotations, mitigated, lastRotation, history,
                   engineMethods, profiles, caller, spawned, reported, logged,
                   lastNotify, nstops, ncalls, npasses, errs>>

\* a `with self._lock:` block that thread t does not leave
LockKept(t) == lock

\* the end of the `with self._lock:` block of thread t
LockReleased(t) == IF lock = t THEN NoThread ELSE lock

\* self._threat_signals = [...]; new_level = evaluate_threat(...); lock released
PurgeWriteEval(t) ==
    /\ loop[t].pc = "score"
    /\ signals' = loop[t].tmp
    /\ lock' = LockReleased(t)
    /\ SetLoop(t, [loop[t] EXCEPT !.pc = "commit", !.tmp = <<>>,
                                  !.newLevel = EvaluateThreat(loop[t].tmp, now)])
    /\ UNCHANGED <<chaos, now, actions, level, response, running, thread, callbacks,
                   rotations, mitigated, lastRotation, history, engineMethods,
                   profiles, caller, spawned, reported, logged, lastNotify,
                   nstops, ncalls, npasses, errs>>

\* if new_level != self._current_threat_level: self._current_threat_level = new_level
Commit(t) ==
    /\ loop[t].pc = "commit"
    /\ IF loop[t].newLevel # level
       THEN /\ level' = loop[t].newLevel
            /\ SetLoop(t, [loop[t] EXCEPT !.pc = "decide", !.did = {"changed"}])
       ELSE /\ level' = level
            /\ SetLoop(t, [loop[t] EXCEPT !.pc = "sched"])
    /\ UNCHANGED <<chaos, now, signals, actions, response, running, thread, lock,
                   callbacks, rotations, mitigated, lastRotation, history,
                   engineMethods, profiles, caller, spawned, reported, logged,
                   lastNotify, nstops, ncalls, npasses, errs>>

\* response = decide_response(new_level); self._current_response = response
Decide(t) ==
    /\ loop[t].pc = "decide"
    /\ \E noise \in NoiseDraws :
         LET r == DecideResponse(loop[t].newLevel, noise)
         IN  /\ history' = DequeAppend(history, [level |-> loop[t].newLevel, response |-> r])
             /\ response' = r
             /\ SetLoop(t, [loop[t] EXCEPT !.pc = "rotate", !.resp = r,
                                           !.did = @ \cup {"composed"}])
    /\ UNCHANGED <<chaos, now, signals, actions, level, running, thread, lock,
                   callbacks, rotations, mitigated, lastRotation,
                   engineMethods, profiles, caller, spawned, reported, logged,
                   lastNotify, nstops, ncalls, npasses, errs>>

\* ------------------------------------------------- _execute_response steps

\* if response.get('rotate_fingerprint'): rotate_profile(); counters;
\* _log_action("fingerprint_rotation", ...)
ExecRotate(t) ==
    /\ loop[t].pc = "rotate"
    /\ IF loop[t].resp.rotate_fingerprint
       THEN /\ profiles' = profiles + 1
            /\ rotations' = rotations + 1
            /\ lastRotation' = now
            /\ LogAction("fingerprint_rotation")
            /\ SetLoop(t, [loop[t] EXCEPT !.pc = "methods", !.did = @ \cup {"rotate"}])
       ELSE /\ UNCHANGED <<profiles, rotations, lastRotation, actions, logged>>
            /\ SetLoop(t, [loop[t] EXCEPT !.pc = "methods"])
    /\ UNCHANGED <<chaos, now, signals, level, response, running, thread, lock,
                   callbacks, mitigated, history, engineMethods, caller,
                   spawned, reported, lastNotify, nstops, ncalls, npasses,
                   errs>>

\* rotate_profile() raises: the exception leaves _execute_response
ExecRotateFail(t) ==
    /\ loop[t].pc = "rotate"
    /\ loop[t].resp.rotate_fingerprint
    /\ errs < MaxErrors
    /\ errs' = errs + 1
    /\ SetLoop(t, Caught(t))
    /\ UNCHANGED <<chaos, now, signals, actions, level, response, running, thread,
                   lock, callbacks, rotations, mitigated, lastRotation,
                   history, engineMethods, profiles, caller, spawned, reported,
                   logged, lastNotify, nstops, ncalls, npasses>>

\* if active_methods: telemetry_engine.set_active_methods(active_methods);
\* _log_action("telemetry_methods_updated", ...)
ExecMethods(t) ==
    /\ loop[t].pc = "methods"
    /\ IF loop[t].resp.active_methods # {}
       THEN /\ engineMethods' = loop[t].resp.active_methods
            /\ LogAction("telemetry_methods_updated")
            /\ SetLoop(t, [loop[t] EXCEPT !.pc = "phantom", !.did = @ \cup {"methods"}])
       ELSE /\ UNCHANGED <<engineMethods, actions, logged>>
            /\ SetLoop(t, [loop[t] EXCEPT !.pc = "phantom"])
    /\ UNCHANGED <<chaos, now, signals, level, response, running, thread, lock,
                   callbacks, rotations, mitigated, lastRotation, history,
                   profiles, caller, spawned, reported, lastNotify, nstops,
                   ncalls, npasses, errs>>

\* set_active_methods() raises
ExecMethodsFail(t) ==
    /\ loop[t].pc = "methods"
    /\ loop[t].resp.active_methods # {}
    /\ errs < MaxErrors
    /\ errs' = errs + 1
    /\ SetLoop(t, Caught(t))
    /\ UNCHANGED <<chaos, now, signals, actions, level, response, running, thread,
                   lock, callbacks, rotations, mitigated, lastRotation,
                   history, engineMethods, profiles, caller, spawned, reported,
                   logged, lastNotify, nstops, ncalls, npasses>>

\* if phantom_count > 0: swarm.generate_swarm(phantom_count);
\* _log_action("phantom_swarm_deployed", ...); then, in either case,
\* self._threats_mitigated += 1
ExecPhantom(t) ==
    /\ loop[t].pc = "phantom"
    /\ IF loop[t].resp.phantom_count > 0
       THEN /\ LogAction("phantom_swarm_deployed")
            /\ SetLoop(t, [loop[t] EXCEPT !.pc = "notify",
                                          !.did = @ \cup {"phantom", "applied"}])
       ELSE /\ UNCHANGED <<actions, logged>>
            /\ SetLoop(t, [loop[t] EXCEPT !.pc = "notify", !.did = @ \cup {"applied"}])
    /\ mitigated' = mitigated + 1
    /\ UNCHANGED <<chaos, now, signals, level, response, running, thread, lock,
                   callbacks, rotations, lastRotation, history, engineMethods,
                   profiles, caller, spawned, reported, lastNotify, nstops,
                   ncalls, npasses, errs>>

\* generate_swarm() raises
ExecPhantomFail(t) ==
    /\ loop[t].pc = "phantom"
    /\ loop[t].resp.phantom_count > 0
    /\ errs < MaxErrors
    /\ errs' = errs + 1
    /\ SetLoop(t, Caught(t))
    /\ UNCHANGED <<chaos, now, signals, actions, level, response, running, thread,
                   lock, callbacks, rotations, mitigated, lastRotation,
                   history, engineMethods, profiles, caller, spawned, reported,
                   logged, lastNotify, nstops, ncalls, npasses>>

\* the payload of the 'threat_level_change' event: 'old' is read from
\* self._current_threat_level when the dictionary is built, 'new' is the
\* local new_level
ChangePayload(t) ==
    [event |-> "threat_level_change", old |-> level, new |-> loop[t].newLevel]

\* self._notify('threat_level_change', {...})
NotifyChange(t) ==
    /\ loop[t].pc = "notify"
    /\ \E raisers \in SUBSET (1..callbacks) :
         LET r == Notify(raisers)
         IN  /\ lastNotify' = r @@ ChangePayload(t)
             /\ SetLoop(t, IF r.propagated
                           THEN Caught(t)
                           ELSE [loop[t] EXCEPT !.pc = "sched",
                                                !.did = @ \cup {"notified"}])
    /\ UNCHANGED <<chaos, now, signals, actions, level, response, running, thread,
                   lock, callbacks, rotations, mitigated, lastRotation,
                   history, engineMethods, profiles, caller, spawned, reported,
                   logged, nstops, ncalls, npasses, errs>>

\* ------------------------------------------ the rest of one loop iteration

\* interval = self._current_response.get('rotation_interval'), _last_rotation
\* set, and elapsed >= interval
RotationDue ==
    /\ response.rotation_interval # 0
    /\ lastRotation # NoTime
    /\ now - lastRotation >= response.rotation_interval

\* the periodic-rotation block: rotate_profile(); counters;
\* _log_action("scheduled_rotation", ...); then the thread goes to sleep
Sched(t) ==
    /\ loop[t].pc = "sched"
    /\ IF RotationDue
       THEN /\ profiles' = profiles + 1
            /\ rotations' = rotations + 1
            /\ lastRotation' = now
            /\ LogAction("scheduled_rotation")
       ELSE UNCHANGED <<profiles, rotations, lastRotation, actions, logged>>
    /\ SetLoop(t, AtRest(t, "sleep"))
    /\ UNCHANGED <<chaos, now, signals, level, response, running, thread, lock,
                   callbacks, mitigated, history, engineMethods, caller,
                   spawned, reported, lastNotify, nstops, ncalls, npasses,
                   errs>>

\* the scheduled rotate_profile() raises
SchedFail(t) ==
    /\ loop[t].pc = "sched"
    /\ RotationDue
    /\ errs < MaxErrors
    /\ errs' = errs + 1
    /\ SetLoop(t, Caught(t))
    /\ UNCHANGED <<chaos, now, signals, actions, level, response, running, thread,
                   lock, callbacks, rotations, mitigated, lastRotation,
                   history, engineMethods, profiles, caller, spawned, reported,
                   logged, lastNotify, nstops, ncalls, npasses>>

\* ------------------------------------------------------- start() and stop()

\* start(): if self._running: return
StartCall(c) ==
    /\ caller[c].pc = "idle"
    /\ ncalls < MaxCalls
    /\ running \/ spawned < Cardinality(LoopIds)
    /\ ncalls' = ncalls + 1
    /\ caller' = [caller EXCEPT ![c].pc = IF running THEN "idle" ELSE "start_spawn"]
    /\ UNCHANGED <<chaos, now, signals, actions, level, response, running, thread,
                   lock, callbacks, rotations, mitigated, lastRotation,
                   history, engineMethods, profiles, loop, spawned, reported,
                   logged, lastNotify, nstops, npasses, errs>>

\* self._running = True; self._start_time = datetime.now();
\* self._thread = threading.Thread(target=_agent_loop); self._thread.start()
StartSpawn(c) ==
    /\ caller[c].pc = "start_spawn"
    /\ spawned < Cardinality(LoopIds)
    /\ running' = TRUE
    /\ spawned' = spawned + 1
    /\ thread' = spawned + 1
    /\ loop' = [loop EXCEPT ![spawned + 1] = [IdleLoop EXCEPT !.pc = "start", !.born = nstops]]
    /\ caller' = [caller EXCEPT ![c].pc = "start_log"]
    /\ UNCHANGED <<chaos, now, signals, actions, level, response, lock, callbacks,
                   rotations, mitigated, lastRotation, history, engineMethods,
                   profiles, reported, logged, lastNotify, nstops, ncalls,
                   npasses, errs>>

\* self._log_action("agent_started", ...)
StartLog(c) ==
    /\ caller[c].pc = "start_log"
    /\ LogAction("agent_started")
    /\ caller' = [caller EXCEPT ![c].pc = "idle"]
    /\ UNCHANGED <<chaos, now, signals, level, response, running, thread, lock,
                   callbacks, rotations, mitigated, lastRotation, history,
                   engineMethods, profiles, loop, spawned, reported,
                   lastNotify, nstops, ncalls, npasses, errs>>

\* a stop() that puts the agent back to CALM
LevelResetByStop == CALM

\* the level after stop(): stop() does not assign it
LevelAfterStop == level

\* stop(): self._running = False; self.telemetry_engine.stop_background()
\* (the engine's flags are cleared; its joins are bounded by their own
\* timeouts, and the agent never starts the engine's worker)
StopCall(c) ==
    /\ caller[c].pc = "idle"
    /\ ncalls < MaxCalls
    /\ ncalls' = ncalls + 1
    /\ nstops' = nstops + 1
    /\ running' = FALSE
    /\ level' = LevelAfterStop
    /\ caller' = [caller EXCEPT ![c] = [pc |-> "stop_join", redundant |-> ~running]]
    /\ UNCHANGED <<chaos, now, signals, actions, response, thread, lock,
                   callbacks, rotations, mitigated, lastRotation, history,
                   engineMethods, profiles, loop, spawned, reported, logged,
                   lastNotify, npasses, errs>>

\* if self._thread: join returns because the loop thread has ended (or there
\* is no thread)
StopJoinExited(c) ==
    /\ caller[c].pc = "stop_join"
    /\ IF thread = NoThread THEN TRUE ELSE loop[thread].pc = "exited"
    /\ caller' = [caller EXCEPT ![c].pc = "stop_log"]
    /\ UNCHANGED <<chaos, now, signals, actions, level, response, running, thread,
                   lock, callbacks, rotations, mitigated, lastRotation,
                   history, engineMethods, profiles, loop, spawned, reported,
                   logged, lastNotify, nstops, ncalls, npasses, errs>>

\* join(timeout=10) returns because the timeout expired
StopJoinTimeout(c) ==
    /\ caller[c].pc = "stop_join"
    /\ IF thread = NoThread THEN FALSE ELSE loop[thread].pc # "exited"
    /\ caller' = [caller EXCEPT ![c].pc = "stop_log"]
    /\ UNCHANGED <<chaos, now, signals, actions, level, response, running, thread,
                   lock, callbacks, rotations, mitigated, lastRotation,
                   history, engineMethods, profiles, loop, spawned, reported,
                   logged, lastNotify, nstops, ncalls, npasses, errs>>

\* self._thread.join(timeout=10)
\* self._thread.join() with no timeout
StopJoinUnbounded(c) == StopJoinExited(c)

StopJoin(c) == StopJoinExited(c) \/ StopJoinTimeout(c)

\* self._log_action("agent_stopped", ...)
StopLog(c) ==
    /\ caller[c].pc = "stop_log"
    /\ LogAction("agent_stopped")
    /\ caller' = [caller EXCEPT ![c] = IdleCaller]
    /\ UNCHANGED <<chaos, now, signals, level, response, running, thread, lock,
                   callbacks, rotations, mitigated, lastRotation, history,
                   engineMethods, profiles, loop, spawned, reported,
                   lastNotify, nstops, ncalls, npasses, errs>>

\* ------------------------------------------------------------- environment

\* the wall clock advances
Tick ==
    /\ now < MaxTicks * TimeUnit
    /\ now' = now + TimeUnit
    /\ UNCHANGED <<chaos, signals, actions, level, response, running, thread, lock,
                   callbacks, rotations, mitigated, lastRotation, history,
                   engineMethods, profiles, loop, caller, spawned, reported,
                   logged, lastNotify, nstops, ncalls, npasses, errs>>

\* what the reporting threads pass to report_signal
ReportInputs == {[typ |-> "webrtc_stun_request", conf |-> 10]}

\* report_signal(): the signal is appended under the lock, then the
\* observers are notified of a 'signal' event
ReportSignal(inp) ==
    /\ Len(reported) < MaxReports
    /\ LockAvailable
    /\ LET s == [id |-> Len(reported) + 1, ts |-> now, typ |-> inp.typ, conf |-> inp.conf]
       IN  /\ signals' = Append(signals, s)
           /\ reported' = Append(reported, s)
    /\ \E raisers \in SUBSET (1..callbacks) : lastNotify' = Notify(raisers)
    /\ loop' = [t \in LoopIds |-> [loop[t] EXCEPT !.quiet = FALSE]]
    /\ UNCHANGED <<chaos, now, actions, level, response, running, thread, lock,
                   callbacks, rotations, mitigated, lastRotation, history,
                   engineMethods, profiles, caller, spawned, logged,
                   nstops, ncalls, npasses, errs>>

\* register_callback(): self._callbacks.append(callback)
RegisterCallback ==
    /\ callbacks < MaxObservers
    /\ callbacks' = callbacks + 1
    /\ UNCHANGED <<chaos, now, signals, actions, level, response, running, thread,
                   lock, rotations, mitigated, lastRotation, history,
                   engineMethods, profiles, loop, caller, spawned, reported,
                   logged, lastNotify, nstops, ncalls, npasses, errs>>

\* ------------------------------------------------------------ specification

\* one step of a pass of _agent_loop that raises nothing
PassStep(t) ==
    \/ LoopEnter(t) \/ PurgeRead(t) \/ PurgeWriteEval(t)
    \/ Commit(t) \/ Decide(t)
    \/ ExecRotate(t) \/ ExecMethods(t) \/ ExecPhantom(t)
    \/ NotifyChange(t) \/ Sched(t)

\* a collaborator call of _execute_response raises
FailStep(t) == ExecRotateFail(t) \/ ExecMethodsFail(t) \/ ExecPhantomFail(t)

LoopStep(t) == PassStep(t) \/ FailStep(t) \/ SchedFail(t) \/ LoopExit(t)

StartStep(c) == StartCall(c) \/ StartSpawn(c) \/ StartLog(c)

StopStep(c) == StopCall(c) \/ StopJoin(c) \/ StopLog(c)

CallerStep(c) == StartStep(c) \/ StopStep(c)

\* The agent without observers: loop threads, calling threads, detectors and
\* the clock.
NextRun ==
    \/ \E t \in LoopIds : LoopStep(t)
    \/ \E c \in CallerIds : CallerStep(c)
    \/ \E inp \in ReportInputs : ReportSignal(inp)
    \/ Tick

SpecRun == Init /\ [][NextRun]_vars

\* the complete agent
Next == NextRun \/ RegisterCallback

Spec == Init /\ [][Next]_vars

\* Lifecycle: start() and stop() in any order against the loop threads, with
\* failing collaborators and detectors, at one instant of the clock.
NextLife ==
    \/ \E t \in LoopIds : PassStep(t) \/ FailStep(t) \/ LoopExit(t)
    \/ \E c \in CallerIds : CallerStep(c)
    \/ \E inp \in ReportInputs : ReportSignal(inp)

SpecLife == Init /\ [][NextLife]_vars

\* Lifecycle under the scheduling the code can rely on: join(timeout=10)
\* returns, a thread inside the critical section of _evaluate_and_respond
\* leaves it, and a thread waiting for the lock gets it.  Nothing is assumed
\* of the collaborators or of the sleeping loop.
FairLife ==
    /\ SpecLife
    /\ \A c \in CallerIds : WF_vars(StopJoin(c)) /\ SF_vars(StopLog(c))
    /\ \A t \in LoopIds : WF_vars(PurgeWriteEval(t))

\* A running agent over time: detectors report while the loop purges, scores
\* and responds, the clock advances, collaborators may fail.
NextConc ==
    \/ \E t \in LoopIds : PassStep(t) \/ FailStep(t) \/ SchedFail(t)
    \/ \E c \in CallerIds : StartStep(c)
    \/ \E inp \in ReportInputs : ReportSignal(inp)
    \/ Tick

SpecConc == Init /\ [][NextConc]_vars

\* A running agent with observers registering at any time.
NextObs ==
    \/ \E t \in LoopIds : PassStep(t)
    \/ \E c \in CallerIds : StartStep(c)
    \/ \E inp \in ReportInputs : ReportSignal(inp)
    \/ RegisterCallback

SpecObs == Init /\ [][NextObs]_vars

\* ------------------------------------------------- the scorer on its own

\* evaluate_threat as a pure function of the store and the clock: the store is
\* drawn from the stores report_signal can build (timestamps in arrival
\* order) and the function is applied once.
ScoreTimes == {k * TimeUnit : k \in 0..MaxTicks}

\* one entry per detection type, with the confidences of the spec's two
\* scenarios and full confidence elsewhere
ScoreEntries ==
    {[typ |-> "known_tracker_domain", conf |-> 9],
     [typ |-> "canvas_fingerprint", conf |-> 8],
     [typ |-> "webgl_enumeration", conf |-> 7],
     [typ |-> "webrtc_stun_request", conf |-> 9],
     [typ |-> "webrtc_stun_request", conf |-> 10],
     [typ |-> "font_measurement_probe", conf |-> 10],
     [typ |-> "audio_fingerprint", conf |-> 10],
     [typ |-> "telemetry_beacon", conf |-> 10],
     [typ |-> "cookie_sync_pixel", conf |-> 10],
     [typ |-> "plugin_enumeration", conf |-> 10],
     [typ |-> "tls_fingerprint_probe", conf |-> 10]}

ArrivalTimes(n) ==
    {g \in [1..n -> ScoreTimes] : \A i \in 1..(n - 1) : g[i] <= g[i + 1]}

\* the store holding entries f[1..n] that arrived at times g[1..n]
StoreOf(n, f, g) ==
    [i \in 1..n |-> [id |-> i, ts |-> g[i], typ |-> f[i].typ, conf |-> f[i].conf]]

InitScore ==
    /\ now = MaxTicks * TimeUnit
    /\ \E n \in 0..MaxScoreLen :
         \E f \in [1..n -> ScoreEntries], g \in ArrivalTimes(n) :
            signals = StoreOf(n, f, g)
    /\ reported = signals
    /\ InitAgent

\* new_level = self.decision_engine.evaluate_threat(self._threat_signals)
ScoreCall ==
    /\ npasses = 0
    /\ npasses' = 1
    /\ level' = EvaluateThreat(signals, now)
    /\ UNCHANGED <<chaos, now, signals, actions, response, running, thread, lock,
                   callbacks, rotations, mitigated, lastRotation, history,
                   engineMethods, profiles, loop, caller, spawned, reported,
                   logged, lastNotify, nstops, ncalls, errs>>

SpecScore == InitScore /\ [][ScoreCall]_vars

\* =============================================================== properties

Occurrences(sigs, s) == Cardinality({i \in 1..Len(sigs) : sigs[i] = s})

LoopEndsOnlyByStop ==
    \A t \in LoopIds :
       /\ loop[t].pc = "exited" => nstops > loop[t].born
       /\ loop[t].pc = "backoff" => loop[t].errd

\* a thread whose handler caught an error has begun a further iteration
IteratesAfterError ==
    \E t \in LoopIds : loop[t].errd /\ loop[t].pc = "purge" /\ running

\* C3: every call of stop() returns, whatever the loop thread is doing.
StopReturns ==
    \A c \in CallerIds :
       (caller[c].pc \in {"stop_join", "stop_log"}) ~> (caller[c].pc = "idle")

\* stop() has returned while the loop thread it waited for is still inside
\* its pass
StopReturnedEarly ==
    /\ \A c \in CallerIds : caller[c].pc = "idle"
    /\ nstops > 0 /\ ~running
    /\ thread # NoThread
    /\ loop[thread].pc \in {"rotate", "methods", "phantom"}
    /\ actions # <<>> /\ actions[Len(actions)] = "agent_stopped"

\* a step of stop() taken by calling thread c
IsStopStep(c) ==
    /\ caller'[c] # caller[c]
    /\ caller[c].pc \in {"stop_join", "stop_log"} \/ caller'[c].pc = "stop_join"

\* the stop() call that thread c is making, or is about to make, found the
\* agent not running (never started, or already stopped)
RedundantStop(c) ==
    IF caller[c].pc = "idle" THEN ~running ELSE caller[c].redundant

\* C4: stop() on an agent that was never started or is already stopped
\* changes no agent state, the audit log included.
StopIdempotent ==
    [][\A c \in CallerIds :
          IsStopStep(c) /\ RedundantStop(c) => UNCHANGED agentState]_vars

\* C5: once an agent that was started has been stopped, it is never running
\* again: no later start() sets the running flag or starts a loop thread.
StoppedIsTerminal ==
    (spawned >= 1 /\ loop[1].born = 0 /\ nstops > 0)
       => (~running /\ spawned = 1)

\* the pass of loop thread t ends in this step (normally or in the handler)
PassEnds(t) ==
    /\ loop[t].pc \in {"commit", "rotate", "methods", "phantom", "notify", "sched"}
    /\ loop'[t].pc \in RestingPcs

\* C6: a pass that changed the threat level has composed a directive,
\* applied it and then delivered the 'threat_level_change' event by the time
\* it ends; a pass that left the level unchanged has done none of these.
ChangeMeansDirectiveAndEvent ==
    [][\A t \in LoopIds :
          PassEnds(t) =>
             IF "changed" \in loop[t].did
             THEN {"composed", "applied", "notified"} \subseteq loop[t].did
             ELSE loop[t].did = {}]_vars

\* the steps of _execute_response that come after the step at pc
LaterSteps(pc) ==
    CASE pc = "rotate" -> {"methods", "phantom"}
      [] pc = "methods" -> {"phantom"}
      [] OTHER -> {}

\* C7: when a step of directive application fails, every later step whose
\* condition holds is still executed: application is never left with a later
\* due step undone.
ApplicationBestEffort ==
    [][\A t \in LoopIds :
          (loop[t].pc \in {"rotate", "methods", "phantom"}
             /\ loop'[t].pc \in RestingPcs)
          => StepsDue(loop[t].resp) \cap LaterSteps(loop[t].pc) = {}]_vars

\* C8: every _notify call invokes every observer registered at that time,
\* once each and in registration order, whether or not an earlier observer
\* raised; no observer's exception leaves _notify, so the loop that
\* delivers 'threat_level_change' carries on to the rest of its iteration
\* and the delivery changes no agent state.
ObserversIsolated ==
    /\ [](lastNotify.complete /\ ~lastNotify.propagated)
    /\ [][\A t \in LoopIds :
             (loop[t].pc = "notify" /\ loop'[t].pc # "notify")
                => (loop'[t].pc = "sched" /\ UNCHANGED agentState)]_vars

\* the first of two observers raised and the second was still invoked
RaisedObserverSkippedNobody ==
    /\ callbacks = MaxObservers
    /\ lastNotify.raisedEarly
    /\ lastNotify.complete

\* C9: a pass that begins when every reported signal is older than the
\* retention window, with nothing reported since, leaves the store empty
\* and the level CALM, whatever the level was before.
QuietPassEndsCalm ==
    [][\A t \in LoopIds :
          (loop[t].pc = "commit" /\ loop'[t].pc # "commit" /\ loop[t].quiet)
             => (signals' = <<>> /\ level' = CALM)]_vars

\* a quiet pass has just brought a raised level back to CALM and emptied a
\* store that had held signals
QuietPassLoweredLevel ==
    \E t \in LoopIds :
       /\ loop[t].pc = "decide" /\ loop[t].quiet
       /\ reported # <<>> /\ signals = <<>>
       /\ level = CALM

\* The reference score, written from the statement of the scoring rule and
\* kept apart from the scorer above: severities in tenths, one signal's term
\* in 1/30000 of a score point.
RefSeverity ==
    [typ \in DetectionType |->
        CASE typ \in {"canvas_fingerprint", "audio_fingerprint"} -> 30
          [] typ \in {"webgl_enumeration", "tls_fingerprint_probe"} -> 25
          [] typ \in {"font_measurement_probe", "cookie_sync_pixel",
                      "plugin_enumeration"} -> 20
          [] typ = "webrtc_stun_request" -> 40
          [] typ = "known_tracker_domain" -> 10
          [] typ = "telemetry_beacon" -> 15]

RefTerm(s, t) ==
    LET age == t - s.ts
        decayed == 300 - age
    IN  IF age > 300 THEN 0
        ELSE s.conf * RefSeverity[s.typ] * (IF decayed < 30 THEN 30 ELSE decayed)

RECURSIVE RefSum(_, _, _)
RefSum(sigs, t, n) ==
    IF n = 0 THEN 0 ELSE RefTerm(sigs[n], t) + RefSum(sigs, t, n - 1)

RefLevel(sigs, t) ==
    LET score == RefSum(sigs, t, Len(sigs))
    IN  CASE Len(sigs) = 0 -> CALM
          [] Len(sigs) > 0 /\ score < 2 * 30000 -> CALM
          [] Len(sigs) > 0 /\ 2 * 30000 <= score /\ score < 6 * 30000 -> ELEVATED
          [] Len(sigs) > 0 /\ 6 * 30000 <= score /\ score < 15 * 30000 -> HIGH
          [] Len(sigs) > 0 /\ 15 * 30000 <= score -> CRITICAL

\* Scenario A: fresh TRACKER 0.9, CANVAS 0.8, WEBGL 0.7
ScenarioA ==
    StoreOf(3, <<[typ |-> "known_tracker_domain", conf |-> 9],
                 [typ |-> "canvas_fingerprint", conf |-> 8],
                 [typ |-> "webgl_enumeration", conf |-> 7]>>,
            [i \in 1..3 |-> MaxTicks * TimeUnit])

\* Scenario B: Scenario A and a fresh WEBRTC 0.9
ScenarioB ==
    StoreOf(4, <<[typ |-> "known_tracker_domain", conf |-> 9],
                 [typ |-> "canvas_fingerprint", conf |-> 8],
                 [typ |-> "webgl_enumeration", conf |-> 7],
                 [typ |-> "webrtc_stun_request", conf |-> 9]>>,
            [i \in 1..4 |-> MaxTicks * TimeUnit])

\* C10: evaluate_threat returns the level of the reference score (sum of
\* confidence x severity x max(0.1, 1 - age/300) over the signals aged at
\* most 300 s; CALM for an empty store; thresholds 2, 6 and 15); Scenario A
\* scores 5.05 and gives ELEVATED, Scenario B scores 8.65 and gives HIGH.
ScoreMatchesReference ==
    npasses > 0 =>
       /\ level = RefLevel(signals, now)
       /\ Score(signals, now) = RefSum(signals, now, Len(signals))
       /\ signals = ScenarioA =>
             (100 * Score(signals, now) = 505 * ScoreUnit /\ level = ELEVATED)
       /\ signals = ScenarioB =>
             (100 * Score(signals, now) = 865 * ScoreUnit /\ level = HIGH)

\* the scorer has been applied to Scenario B
ScenarioBScored == npasses > 0 /\ signals = ScenarioB /\ level = HIGH

\* confidences a signal may carry, in tenths (ThreatSignal.confidence: 0.0 to 1.0)
ConfValues == 0..10

\* the store with the confidence of signal i replaced by c
WithConfidence(sigs, i, c) == [sigs EXCEPT ![i].conf = c]

\* C11: for the store just scored, raising the confidence of any one signal
\* and leaving everything else (the other signals, the clock) as it is never
\* gives a lower level than the one evaluate_threat returned.
ScoreMonotoneInConfidence ==
    npasses > 0 =>
       \A i \in 1..Len(signals) :
          \A c \in ConfValues :
             c >= signals[i].conf =>
                LevelRank(EvaluateThreat(WithConfidence(signals, i, c), now))
                   >= LevelRank(level)

\* the store was scored ELEVATED and raising one signal's confidence
\* alone lifts it to HIGH
RaisedConfidenceLiftsLevel ==
    /\ npasses > 0 /\ level = ELEVATED
    /\ \E i \in 1..Len(signals) : \E c \in ConfValues :
          /\ c > signals[i].conf
          /\ EvaluateThreat(WithConfidence(signals, i, c), now) = HIGH

\* ------------------------------------------- an agent under heavy tracking

\* the store after four WebRTC leaks were reported at confidence 1.0 to an
\* agent that has not been started yet (score 16.0)
LoadedStore ==
    StoreOf(4, [i \in 1..4 |-> [typ |-> "webrtc_stun_request", conf |-> 10]],
            [i \in 1..4 |-> 0])

InitLoaded ==
    /\ now = 0
    /\ signals = LoadedStore
    /\ reported = signals
    /\ InitAgent

NextLoaded ==
    \/ \E t \in LoopIds : PassStep(t) \/ FailStep(t) \/ LoopExit(t)
    \/ \E c \in CallerIds : CallerStep(c)

SpecLoaded == InitLoaded /\ [][NextLoaded]_vars

HasCriticalProperties(r) ==
    r.rotate_fingerprint /\ r.active_methods = TelemetryMethod

NewSignal(pat) ==
    [id |-> Len(reported) + 1, ts |-> now, typ |-> pat.typ, conf |-> pat.conf]

\* check_domain: a known tracker is (or is not) a substring of the domain
DomainInputs == {<<>>, <<[typ |-> "known_tracker_domain", conf |-> 9]>>}

\* check_url: a tracker pattern is (or is not) a substring of the URL
UrlInputs == {<<>>, <<[typ |-> "telemetry_beacon", conf |-> 7]>>}

\* check_script_content: the patterns of detection_map found in the text, in
\* the order of the map
ScriptInputs ==
    {<<>>,
     <<[typ |-> "canvas_fingerprint", conf |-> 8]>>,
     <<[typ |-> "canvas_fingerprint", conf |-> 8],
       [typ |-> "webrtc_stun_request", conf |-> 9]>>}

\* check_domain / check_url: on the first match build the signal, append it
\* under the lock and return it; return None when nothing matches
CheckOne(d, found) ==
    /\ caller[d].pc = "idle"
    /\ IF found = <<>>
       THEN /\ caller' = [caller EXCEPT ![d] = IdleDetector]
            /\ UNCHANGED <<signals, reported>>
       ELSE /\ Len(reported) < MaxReports
            /\ LockAvailable
            /\ signals' = Append(signals, NewSignal(found[1]))
            /\ reported' = Append(reported, NewSignal(found[1]))
            /\ caller' = [caller EXCEPT ![d] =
                            [IdleDetector EXCEPT !.returned = <<NewSignal(found[1])>>]]
    /\ UNCHANGED <<chaos, now, actions, level, response, running, thread, lock,
                   callbacks, rotations, mitigated, lastRotation, history,
                   engineMethods, profiles, loop, spawned, logged, lastNotify,
                   nstops, ncalls, npasses, errs>>

CheckDomain(d) == \E found \in DomainInputs : CheckOne(d, found)

CheckUrl(d) == \E found \in UrlInputs : CheckOne(d, found)

\* check_script_content: signals = []; the for loop over detection_map begins
CheckScriptBegin(d) ==
    /\ caller[d].pc = "idle"
    /\ \E found \in ScriptInputs :
         /\ Len(reported) + Len(found) <= MaxReports
         /\ caller' = [caller EXCEPT ![d] =
                         [pc |-> "scanning", todo |-> found, returned |-> <<>>]]
    /\ UNCHANGED <<chaos, now, signals, actions, level, response, running, thread,
                   lock, callbacks, rotations, mitigated, lastRotation,
                   history, engineMethods, profiles, loop, spawned, reported,
                   logged, lastNotify, nstops, ncalls, npasses, errs>>

\* a pattern found: signals.append(signal); with self._lock:
\* self._threat_signals.append(signal)
CheckScriptAppend(d) ==
    /\ caller[d].pc = "scanning"
    /\ caller[d].todo # <<>>
    /\ LockAvailable
    /\ LET s == NewSignal(Head(caller[d].todo))
       IN  /\ signals' = Append(signals, s)
           /\ reported' = Append(reported, s)
           /\ caller' = [caller EXCEPT ![d].todo = Tail(@),
                                       ![d].returned = Append(@, s)]
    /\ UNCHANGED <<chaos, now, actions, level, response, running, thread, lock,
                   callbacks, rotations, mitigated, lastRotation, history,
                   engineMethods, profiles, loop, spawned, logged, lastNotify,
                   nstops, ncalls, npasses, errs>>

\* return signals
CheckScriptReturn(d) ==
    /\ caller[d].pc = "scanning"
    /\ caller[d].todo = <<>>
    /\ caller' = [caller EXCEPT ![d].pc = "idle"]
    /\ UNCHANGED <<chaos, now, signals, actions, level, response, running, thread,
                   lock, callbacks, rotations, mitigated, lastRotation,
                   history, engineMethods, profiles, loop, spawned, reported,
                   logged, lastNotify, nstops, ncalls, npasses, errs>>

CheckStep(d) ==
    \/ CheckDomain(d) \/ CheckUrl(d)
    \/ CheckScriptBegin(d) \/ CheckScriptAppend(d) \/ CheckScriptReturn(d)

\* A running agent whose detectors are the pattern matchers.
NextCheck ==
    \/ \E t \in LoopIds : PassStep(t)
    \/ \E c \in CallerIds : StartStep(c)
    \/ \E d \in DetectorIds : CheckStep(d)

SpecCheck == Init /\ [][NextCheck]_vars

Last(seq) == seq[Len(seq)]

\* C13: a step of check_domain, check_url or check_script_content changes
\* the store only by appending the signal it adds to its return value, and
\* leaves the level, the active directive and the action log alone; when
\* the call returns, every returned signal is in the store (once), and a
\* call that returns nothing has left the store as it was.
ChecksAppendWhatTheyReturn ==
    [][\A d \in DetectorIds :
          caller'[d] # caller[d] =>
             /\ UNCHANGED <<level, response, actions>>
             /\ \/ signals' = signals /\ Len(caller'[d].returned) <= Len(caller[d].returned)
                \/ /\ caller'[d].returned # <<>>
                   /\ signals' = Append(signals, Last(caller'[d].returned))
             /\ caller'[d].pc = "idle" =>
                   \A i \in 1..Len(caller'[d].returned) :
                      Occurrences(signals', caller'[d].returned[i]) = 1]_vars

\* check_script_content has returned two signals while a loop thread was
\* inside a pass that scored the store before the second was appended
ScriptCheckReturnedTwo ==
    \E d \in DetectorIds :
       /\ caller[d].pc = "idle" /\ Len(caller[d].returned) = 2
       /\ \A i \in 1..2 : Occurrences(signals, caller[d].returned[i]) = 1
       /\ \E t \in LoopIds : loop[t].pc = "decide" /\ loop[t].newLevel = ELEVATED

\* ------------------------------------------------------- the chaos sources

\* Floats are kept in fixed point: the state of a LogisticMap in units of
\* 1/UnitX, the coordinates of a LorenzAttractor in units of 1/UnitL.  A
\* seed is a number, 0 standing for "no seed" (None or the empty string).
UnitX == 400
UnitL == 100

\* the first 8 bytes of sha256(seed), scaled down to 16 bits
DigestSpan == 65536
Digest(seed) == (seed * 40503 + 12345) % DigestSpan

\* an initial value taken from the object and not only from the seed
SeedToXOfObject(self, seed) ==
    UnitX \div 10 + (Digest(seed + self) * ((8 * UnitX) \div 10)) \div DigestSpan

\* _seed_to_x: 0.1 + (val / 2**64) * 0.8
SeedToX(self, seed) ==
    UnitX \div 10 + (Digest(seed) * ((8 * UnitX) \div 10)) \div DigestSpan

\* _step of LogisticMap: r * x * (1 - x) with r = 3.9999
LogisticStep(x) == (39999 * x * (UnitX - x)) \div (10000 * UnitX)

\* n iterations of _step: r is reached from q by the later half of them,
\* and q from the start by the first half
RECURSIVE LogisticSteps(_, _)
LogisticSteps(x, n) ==
    IF n = 0 THEN x
    ELSE IF n = 1 THEN LogisticStep(x)
    ELSE CHOOSE r \in {LogisticSteps(q, n - n \div 2) : q \in {LogisticSteps(x, n \div 2)}} : TRUE

LogisticWarmUp == 100

\* LogisticMap.__init__: seed the state, then warm up
LogisticInit(self, seed) ==
    LogisticSteps(IF seed # 0 THEN SeedToX(self, seed) ELSE UnitX \div 2,
                  LogisticWarmUp)

\* derivatives(x, y, z) of LorenzAttractor._step, sigma = 10, rho = 28,
\* beta = 8/3
Derivatives(p) ==
    [x |-> 10 * (p.y - p.x),
     y |-> (p.x * (28 * UnitL - p.z)) \div UnitL - p.y,
     z |-> (p.x * p.y) \div UnitL - (8 * p.z) \div 3]

\* the point p moved along k for the fraction 1/d of a second (dt = 0.01)
Along(p, k, d) ==
    [x |-> p.x + k.x \div d, y |-> p.y + k.y \div d, z |-> p.z + k.z \div d]

\* _step of LorenzAttractor: one Runge-Kutta 4 step
LorenzStep(p) ==
    LET k1 == Derivatives(p)
        k2 == Derivatives(Along(p, k1, 200))
        k3 == Derivatives(Along(p, k2, 200))
        k4 == Derivatives(Along(p, k3, 100))
    IN  [x |-> p.x + (k1.x + 2 * k2.x + 2 * k3.x + k4.x) \div 600,
         y |-> p.y + (k1.y + 2 * k2.y + 2 * k3.y + k4.y) \div 600,
         z |-> p.z + (k1.z + 2 * k2.z + 2 * k3.z + k4.z) \div 600]

\* n iterations of _step: r is reached from q by the later half of them,
\* and q from the start by the first half
RECURSIVE LorenzSteps(_, _)
LorenzSteps(p, n) ==
    IF n = 0 THEN p
    ELSE IF n = 1 THEN LorenzStep(p)
    ELSE CHOOSE r \in {LorenzSteps(q, n - n \div 2) : q \in {LorenzSteps(p, n \div 2)}} : TRUE

LorenzWarmUp == 1000

\* LorenzAttractor.__init__: three draws of LogisticMap(seed) place the
\* point, or (1, 1, 1) without a seed; then warm up
LorenzInit(self, seed) ==
    LET a == LogisticStep(LogisticInit(self, seed))
        b == LogisticStep(a)
        c == LogisticStep(b)
        start == IF seed # 0
                 THEN [x |-> (a * 30 * UnitL) \div UnitX - 15 * UnitL,
                       y |-> (b * 30 * UnitL) \div UnitX - 15 * UnitL,
                       z |-> (c * 50 * UnitL) \div UnitX]
                 ELSE [x |-> UnitL, y |-> UnitL, z |-> UnitL]
    IN  LorenzSteps(start, LorenzWarmUp)

\* next_normalized: (x / 20, y / 20, (z - 25) / 25)
Normalized(p) ==
    [x |-> p.x \div 20, y |-> p.y \div 20, z |-> (p.z - 25 * UnitL) \div 25]

\* the variants of a chaos source
Kinds == {"logistic", "lorenz"}

\* the seeds a source is constructed with; 0 stands for no seed (None or "")
Seeds == 0..MaxSeed

\* the (min_val, max_val) pairs next_int is called with
IntRanges == {<<0, 0>>, <<5, 15>>, <<-2, 3>>}

\* the lists next_choice is called with
ChoiceItems == {<<>>, <<7>>, <<7, 8, 9>>}

\* a call made on a source, and what a call returned
Op(name, lo, hi, items) == [name |-> name, lo |-> lo, hi |-> hi, items |-> items]
Ret(ret, v) == [ret |-> ret, v |-> v]

\* value * size rounded to the nearest integer
ScaleRounded(x, size) == (2 * x * size + UnitX) \div (2 * UnitX)

\* int(value * size): the integer part
Scale(x, size) == (x * size) \div UnitX

\* a test of the list that never finds it empty
NotItemsNever(items) == FALSE

\* `not items`
NotItems(items) == Len(items) = 0

\* items[i] of a Python list: an index out of -len..len-1 raises
ItemAt(items, i) ==
    IF i \in (0 - Len(items))..(Len(items) - 1)
    THEN Ret("item", items[(i % Len(items)) + 1])
    ELSE Ret("IndexError", 0)

\* a source after one more call: its state, the call and what it returned
Drawn(c, x, op, ret) ==
    [c EXCEPT !.x = x, !.ops = Append(@, op), !.out = Append(@, ret)]

\* LogisticMap(seed) or LorenzAttractor(seed)
Construct(i, kind, seed) ==
    /\ chaos[i].kind = "none"
    /\ chaos' = [chaos EXCEPT ![i] =
           IF kind = "logistic"
           THEN [NoSource EXCEPT !.kind = kind, !.seed = seed,
                                 !.x = LogisticInit(i, seed)]
           ELSE LET p == LorenzInit(i, seed)
                IN  [NoSource EXCEPT !.kind = kind, !.seed = seed,
                                     !.x = p.x, !.y = p.y, !.z = p.z]]
    /\ UNCHANGED <<now, signals, actions, level, response, running, thread,
                   lock, callbacks, rotations, mitigated, lastRotation,
                   history, engineMethods, profiles, loop, caller, spawned,
                   reported, logged, lastNotify, nstops, ncalls, npasses, errs>>

\* LogisticMap.next
LogisticNext(i) ==
    /\ chaos[i].kind = "logistic"
    /\ Len(chaos[i].ops) < MaxDraws
    /\ LET x == LogisticStep(chaos[i].x)
       IN  chaos' = [chaos EXCEPT ![i] =
               Drawn(@, x, Op("next", 0, 0, <<>>), Ret("float", x))]
    /\ UNCHANGED <<now, signals, actions, level, response, running, thread,
                   lock, callbacks, rotations, mitigated, lastRotation,
                   history, engineMethods, profiles, loop, caller, spawned,
                   reported, logged, lastNotify, nstops, ncalls, npasses, errs>>

\* LogisticMap.next_int(min_val, max_val)
NextInt(i, lo, hi) ==
    /\ chaos[i].kind = "logistic"
    /\ Len(chaos[i].ops) < MaxDraws
    /\ LET x == LogisticStep(chaos[i].x)
       IN  chaos' = [chaos EXCEPT ![i] =
               Drawn(@, x, Op("next_int", lo, hi, <<>>),
                     Ret("int", lo + Scale(x, hi - lo + 1)))]
    /\ UNCHANGED <<now, signals, actions, level, response, running, thread,
                   lock, callbacks, rotations, mitigated, lastRotation,
                   history, engineMethods, profiles, loop, caller, spawned,
                   reported, logged, lastNotify, nstops, ncalls, npasses, errs>>

\* LogisticMap.next_choice(items)
NextChoice(i, items) ==
    /\ chaos[i].kind = "logistic"
    /\ Len(chaos[i].ops) < MaxDraws
    /\ LET x == LogisticStep(chaos[i].x)
           op == Op("next_choice", 0, 0, items)
       IN  chaos' = [chaos EXCEPT ![i] =
               IF NotItems(items)
               THEN Drawn(@, @.x, op, Ret("None", 0))
               ELSE Drawn(@, x, op,
                          ItemAt(items, 0 + Scale(x, (Len(items) - 1) - 0 + 1)))]
    /\ UNCHANGED <<now, signals, actions, level, response, running, thread,
                   lock, callbacks, rotations, mitigated, lastRotation,
                   history, engineMethods, profiles, loop, caller, spawned,
                   reported, logged, lastNotify, nstops, ncalls, npasses, errs>>

\* the point a Lorenz source is at
PointOf(c) == [x |-> c.x, y |-> c.y, z |-> c.z]

\* a Lorenz source moved to p by a call
Moved(c, p, name, v) ==
    [c EXCEPT !.x = p.x, !.y = p.y, !.z = p.z,
              !.ops = Append(@, Op(name, 0, 0, <<>>)),
              !.out = Append(@, Ret("point", <<v.x, v.y, v.z>>))]

\* LorenzAttractor.next
LorenzNext(i) ==
    /\ chaos[i].kind = "lorenz"
    /\ Len(chaos[i].ops) < MaxDraws
    /\ LET p == LorenzStep(PointOf(chaos[i]))
       IN  chaos' = [chaos EXCEPT ![i] = Moved(@, p, "next", p)]
    /\ UNCHANGED <<now, signals, actions, level, response, running, thread,
                   lock, callbacks, rotations, mitigated, lastRotation,
                   history, engineMethods, profiles, loop, caller, spawned,
                   reported, logged, lastNotify, nstops, ncalls, npasses, errs>>

\* LorenzAttractor.next_normalized
NextNormalized(i) ==
    /\ chaos[i].kind = "lorenz"
    /\ Len(chaos[i].ops) < MaxDraws
    /\ LET p == LorenzStep(PointOf(chaos[i]))
       IN  chaos' = [chaos EXCEPT ![i] =
               Moved(@, p, "next_normalized", Normalized(p))]
    /\ UNCHANGED <<now, signals, actions, level, response, running, thread,
                   lock, callbacks, rotations, mitigated, lastRotation,
                   history, engineMethods, profiles, loop, caller, spawned,
                   reported, logged, lastNotify, nstops, ncalls, npasses, errs>>

\* chaos sources constructed and drawn from, the agent at rest
NextChaos ==
    \E i \in ChaosIds :
        \/ \E kind \in Kinds, seed \in Seeds : Construct(i, kind, seed)
        \/ LogisticNext(i)
        \/ \E r \in IntRanges : NextInt(i, r[1], r[2])
        \/ \E items \in ChoiceItems : NextChoice(i, items)
        \/ LorenzNext(i)
        \/ NextNormalized(i)

SpecChaos == Init /\ [][NextChaos]_vars

NextIntInRange ==
    /\ \A i \in ChaosIds : \A k \in 1..Len(chaos[i].ops) :
           chaos[i].ops[k].name = "next_int"
           => /\ chaos[i].out[k].ret = "int"
              /\ chaos[i].out[k].v \in chaos[i].ops[k].lo..chaos[i].ops[k].hi
    /\ \A i \in ChaosIds :
           chaos[i].kind = "logistic"
           => /\ chaos[i].x \in 0..(UnitX - 1)
              /\ \A r \in IntRanges :
                     r[1] + Scale(LogisticStep(chaos[i].x), r[2] - r[1] + 1)
                         \in r[1]..r[2]

\* a source has drawn both ends of a range: next_int(-2, 3) returned 3
\* and then -2
NextIntDrewBothEnds ==
    \E i \in ChaosIds :
        /\ Len(chaos[i].ops) = 2
        /\ \A k \in 1..2 : chaos[i].ops[k] = Op("next_int", -2, 3, <<>>)
        /\ {chaos[i].out[1].v, chaos[i].out[2].v} = {-2, 3}

\* C16: next_choice on an empty list returned None, next_choice on a
\* non-empty list returned one of its elements, and no call raised
ChoiceDefinedOnEmpty ==
    \A i \in ChaosIds : \A k \in 1..Len(chaos[i].ops) :
        /\ chaos[i].out[k].ret # "IndexError"
        /\ chaos[i].ops[k].name = "next_choice"
           => IF chaos[i].ops[k].items = <<>>
              THEN chaos[i].out[k] = Ret("None", 0)
              ELSE /\ chaos[i].out[k].ret = "item"
                   /\ \E n \in 1..Len(chaos[i].ops[k].items) :
                          chaos[i].out[k].v = chaos[i].ops[k].items[n]

\* a source was asked to choose from the empty list and then from a list of
\* three, and chose its last element
ChoseFromEmptyThenThree ==
    \E i \in ChaosIds :
        /\ Len(chaos[i].ops) = 2
        /\ chaos[i].ops[1] = Op("next_choice", 0, 0, <<>>)
        /\ chaos[i].out[1].ret = "None"
        /\ chaos[i].ops[2] = Op("next_choice", 0, 0, <<7, 8, 9>>)
        /\ chaos[i].out[2] = Ret("item", 9)

\* ------------------------------------------------ scheduled rotation

\* The agent under heavy tracking over time: the signals age and are purged
\* while the loop scores and responds, the clock advances, collaborators may
\* fail.
NextSiege ==
    \/ \E t \in LoopIds : PassStep(t) \/ FailStep(t) \/ SchedFail(t)
    \/ \E c \in CallerIds : StartStep(c)
    \/ Tick

SpecSiege == InitLoaded /\ [][NextSiege]_vars

\* C17: an iteration of the loop that ends while the active directive has a
\* rotation interval and at least that much time has passed since the last
\* rotation has rotated on schedule -- profile rotated, 'scheduled_rotation'
\* logged, last-rotation time reset -- unless the scheduled rotate_profile()
\* itself raised.
ScheduledRotationWhenDue ==
    [][\A t \in LoopIds :
          (/\ PassEnds(t)
           /\ RotationDue
           /\ loop[t].pc = "sched" => loop'[t].pc = "sleep")
          => /\ profiles' = profiles + 1
             /\ rotations' = rotations + 1
             /\ lastRotation' = now
             /\ logged' = Append(logged, "scheduled_rotation")]_vars

\* ------------------------------------------------ the mitigated counter

\* C18: between loop iterations the threats-mitigated counter equals the
\* number of directives handed to _execute_response so far (one per
\* composition), whichever of its sub-steps ran.
MitigatedCountsDirectives ==
    (\A t \in LoopIds : loop[t].pc \in RestingPcs \cup {"unborn", "exited"})
    => mitigated = Len(history)

\* ------------------------------------------------------ the lock discipline

\* a loop thread that holds the lock takes this step
HolderSteps == \E t \in LoopIds : lock = t /\ loop'[t] # loop[t]

\* C19: the current threat level and the decision history are written only
\* by a loop thread that holds the lock; the signal collection and the
\* action log are written only by the thread that holds the lock or takes it
\* for the write.
WritesUnderLock ==
    [][/\ (level' # level \/ history' # history) => HolderSteps
       /\ (signals' # signals \/ actions' # actions)
          => (LockAvailable \/ HolderSteps)]_vars

\* where a loop thread is about to call a collaborator (rotate_profile,
\* set_active_methods, generate_swarm) or the observers
CallingOut == {"rotate", "methods", "phantom", "notify", "sched"}

\* C20: a loop thread holds the lock from the purge to the end of scoring
\* and at no point after that: not when it is about to call a collaborator
\* or the observers.  While a thread is at such a call and no thread is
\* inside purge-and-score, report_signal can take the lock.
LockNotHeldOutside ==
    /\ \A t \in LoopIds :
          /\ loop[t].pc = "score" => lock = t
          /\ loop[t].pc \in CallingOut \cup {"commit", "decide"} => lock # t
    /\ ((\E t \in LoopIds : loop[t].pc \in CallingOut)
           /\ (\A u \in LoopIds : loop[u].pc # "score")
           /\ Len(reported) < MaxReports)
       => ENABLED (\E inp \in ReportInputs : ReportSignal(inp))

\* a signal was reported after the pass had scored the first one and before
\* it called the observers: the level is ELEVATED with two signals stored
ReportedWhileApplying ==
    \E t \in LoopIds :
       /\ loop[t].pc = "notify" /\ callbacks = MaxObservers
       /\ level = ELEVATED /\ Len(signals) = 2
       /\ lock = NoThread

\* ------------------------------------------------ cancellation checkpoints

\* C21: once stop() has cleared the running flag, a loop thread that is
\* about to apply a step of the directive, to rotate on schedule or to go
\* to sleep does not do so: the only step it takes is to exit.
StopHaltsPass ==
    [][\A t \in LoopIds :
          (~running /\ loop[t].pc \in CallingOut
             /\ loop'[t].pc # loop[t].pc)
          => loop'[t].pc = "exited"]_vars

\* ------------------------------------------------------------- get_status

\* self._threat_signals[-10:]
RecentMax == 10

\* get_status(): with self._lock: recent_signals = ...; recent_actions = ...
GetStatusBegin(s) ==
    /\ caller[s].pc = "idle"
    /\ LockAvailable
    /\ ncalls < MaxCalls
    /\ ncalls' = ncalls + 1
    /\ caller' = [caller EXCEPT ![s] =
           [pc |-> "read_level", returned |-> FALSE,
            snap |-> [NoSnapshot EXCEPT !.recent =
                         IF Len(signals) < RecentMax THEN Len(signals)
                         ELSE RecentMax]]]
    /\ UNCHANGED <<now, signals, actions, level, response, running, thread,
                   lock, callbacks, rotations, mitigated, lastRotation,
                   history, engineMethods, profiles, loop, spawned, reported,
                   logged, lastNotify, nstops, npasses, errs, chaos>>

\* 'threat_level': self._current_threat_level.value
GetStatusLevel(s) ==
    /\ caller[s].pc = "read_level"
    /\ caller' = [caller EXCEPT ![s].pc = "read_methods",
                                ![s].snap.level = level]
    /\ UNCHANGED <<now, signals, actions, level, response, running, thread,
                   lock, callbacks, rotations, mitigated, lastRotation,
                   history, engineMethods, profiles, loop, spawned, reported,
                   logged, lastNotify, nstops, ncalls, npasses, errs, chaos>>

\* 'active_methods': self._current_response.get('active_methods', [])
GetStatusMethods(s) ==
    /\ caller[s].pc = "read_methods"
    /\ caller' = [caller EXCEPT ![s].pc = "read_total",
                                ![s].snap.methods = response.active_methods]
    /\ UNCHANGED <<now, signals, actions, level, response, running, thread,
                   lock, callbacks, rotations, mitigated, lastRotation,
                   history, engineMethods, profiles, loop, spawned, reported,
                   logged, lastNotify, nstops, ncalls, npasses, errs, chaos>>

\* 'total_signals': len(self._threat_signals); the dictionary is returned
GetStatusTotal(s) ==
    /\ caller[s].pc = "read_total"
    /\ caller' = [caller EXCEPT ![s].pc = "idle", ![s].returned = TRUE,
                                ![s].snap.total = Len(signals)]
    /\ UNCHANGED <<now, signals, actions, level, response, running, thread,
                   lock, callbacks, rotations, mitigated, lastRotation,
                   history, engineMethods, profiles, loop, spawned, reported,
                   logged, lastNotify, nstops, ncalls, npasses, errs, chaos>>

GetStatus(s) ==
    \/ GetStatusBegin(s) \/ GetStatusLevel(s)
    \/ GetStatusMethods(s) \/ GetStatusTotal(s)

\* A running agent whose status is queried while detectors report and the
\* loop scores and responds, with start() and stop() in any order.
NextStatus ==
    \/ \E t \in LoopIds : PassStep(t) \/ LoopExit(t)
    \/ \E c \in CallerIds : CallerStep(c)
    \/ \E inp \in ReportInputs : ReportSignal(inp)
    \/ \E s \in StatusIds : GetStatus(s)

SpecStatus == Init /\ [][NextStatus]_vars

\* the calls clients have made so far: start, stop and get_status, the
\* signals reported, the observers registered
ApiCalls == ncalls + Len(reported) + callbacks

\* a client call is made only while fewer than MaxCalls have been made
WithinCalls == ApiCalls' <= MaxCalls

\* The public operations of a ProtectionAgent called in any order while the
\* loop runs: start, stop, report_signal, the pattern matchers,
\* register_callback and get_status, MaxCalls calls in all.
NextApi ==
    \/ \E t \in LoopIds : PassStep(t) \/ LoopExit(t)
    \/ \E c \in CallerIds : CallerStep(c) /\ WithinCalls
    \/ \E inp \in ReportInputs : ReportSignal(inp) /\ WithinCalls
    \/ \E d \in DetectorIds : CheckStep(d) /\ WithinCalls
    \/ \E s \in StatusIds : GetStatus(s) /\ WithinCalls
    \/ RegisterCallback /\ WithinCalls

SpecApi == Init /\ [][NextApi]_vars

\* C22: the current level and the active directive change only in a step of
\* a loop thread inside its pass (the comparison and the composition); every
\* step of start, stop, report_signal, check_domain, check_url,
\* check_script_content, register_callback and get_status leaves both
\* unchanged.
LevelChangesOnlyInPass ==
    [][/\ (level' # level \/ response' # response)
          => \E t \in LoopIds : /\ loop[t].pc \in {"commit", "decide"}
                                /\ loop'[t].pc # loop[t].pc
       /\ (caller' # caller \/ reported' # reported \/ callbacks' # callbacks)
          => UNCHANGED <<level, response>>]_vars

\* a pattern matcher has reported, a pass has raised the level, and
\* get_status has returned the new level
StatusSawRaisedLevel ==
    /\ caller["d1"].returned # <<>>
    /\ level = ELEVATED /\ response.active_methods = BaseMethods(ELEVATED)
    /\ caller["s1"].returned /\ caller["s1"].snap.level = ELEVATED

\* ------------------------------------------------- an agent long in service

\* the levels a long-running agent has gone through: tracking seen and
\* gone, again and again
PastLevel(k) == IF k % 2 = 1 THEN ELEVATED ELSE CALM

\* the directive composed at the k-th level change (with a quiet chaos draw)
PastResponse(k) ==
    DecideResponse(PastLevel(k), [diversity |-> FALSE, timing |-> 0])

\* what _execute_response logged for the first n directives, after
\* "agent_started": the method update of each, and the phantom swarm of the
\* ELEVATED ones
PastActions(n) ==
    [i \in 1..(1 + n + (n + 1) \div 2) |->
        IF i = 1 THEN "agent_started"
        ELSE IF (i - 2) % 3 = 1 THEN "phantom_swarm_deployed"
        ELSE "telemetry_methods_updated"]

\* how many level changes the agent has been through
PastChanges == {DequeMax - 2, DequeMax - 1, DequeMax}

\* a started agent that has composed and applied n directives, its loop
\* asleep, when four WebRTC leaks are reported
InitSeasoned ==
    \E n \in PastChanges :
        /\ now = 0
        /\ signals = LoadedStore
        /\ reported = signals
        /\ chaos = [i \in ChaosIds |-> NoSource]
        /\ actions = PastActions(n)
        /\ logged = actions
        /\ level = PastLevel(n)
        /\ response = PastResponse(n)
        /\ history = [k \in 1..n |-> [level |-> PastLevel(k),
                                      response |-> PastResponse(k)]]
        /\ mitigated = n
        /\ engineMethods = BaseMethods(PastLevel(n))
        /\ running = TRUE
        /\ thread = 1
        /\ spawned = 1
        /\ loop = [t \in LoopIds |->
                      IF t = 1 THEN [IdleLoop EXCEPT !.pc = "sleep"] ELSE IdleLoop]
        /\ lock = NoThread
        /\ callbacks = 0
        /\ rotations = 0
        /\ profiles = 0
        /\ lastRotation = NoTime
        /\ caller = [c \in CallerIds \cup DetectorIds \cup StatusIds |->
                        IF c \in CallerIds THEN IdleCaller
                        ELSE IF c \in DetectorIds THEN IdleDetector
                        ELSE IdleStatus]
        /\ lastNotify = [complete |-> TRUE, raisedEarly |-> FALSE, propagated |-> FALSE]
        /\ nstops = 0
        /\ ncalls = 0
        /\ npasses = 0
        /\ errs = 0

NextSeasoned ==
    \/ \E t \in LoopIds : PassStep(t)
    \/ Tick

SpecSeasoned == InitSeasoned /\ [][NextSeasoned]_vars

\* C23: every composition of a directive appends exactly one entry, for the
\* level and the directive composed, to the decision history; no other step
\* changes the history; the history never holds more than 100 entries, and
\* an append to a full history drops its oldest entry.
HistoryBounded ==
    /\ [](Len(history) <= DequeMax)
    /\ [][\A t \in LoopIds :
             IF loop[t].pc = "decide" /\ loop'[t].pc # "decide"
             THEN LET e == [level |-> loop[t].newLevel, response |-> response']
                  IN  history' = IF Len(history) = DequeMax
                                 THEN Append(Tail(history), e)
                                 ELSE Append(history, e)
             ELSE loop'[t] # loop[t] => history' = history]_vars

\* a full history has taken one more entry: the oldest is gone and the
\* CRITICAL directive is the newest
FullHistoryTookEntry ==
    /\ Len(history) = DequeMax
    /\ history[1].level = CALM
    /\ history[DequeMax].level = CRITICAL
    /\ history[DequeMax - 1].level = CALM

\* the size limits the agent knows: the entries get_status shows and the
\* length of the decision history
ActionCaps == {RecentMax, DequeMax}

\* C24: a step leaves the action log as it is, or appends one entry to it
\* without making it longer than the cap, or appends one entry to a full log
\* and evicts the oldest.
ActionLogCapped ==
    [][\/ actions' = actions
       \/ /\ actions' = Append(actions, Last(actions'))
          /\ \E cap \in ActionCaps : Len(actions') <= cap
       \/ /\ \E cap \in ActionCaps : Len(actions) = cap
          /\ actions' = Append(Tail(actions), Last(actions'))]_vars

\* ------------------------------------------------------- one control loop

\* the loop threads that are inside an iteration
Iterating == {t \in LoopIds : loop[t].pc \notin RestingPcs \cup {"unborn", "exited"}}

\* C25: at most one control-loop thread is executing an iteration, whatever
\* start() and stop() calls have been made.
OneLoopThread == Cardinality(Iterating) <= 1

\* ------------------------------------------------- the level-change event

\* C26: the last 'threat_level_change' event delivered carries an 'old'
\* level that differs from its 'new' level.
ChangeEventOldDiffers ==
    "old" \in DOMAIN lastNotify => lastNotify.old # lastNotify.new

\* ------------------------------------------------ a level and its response

\* no loop thread is inside an iteration
BetweenIterations == Iterating = {}

\* C27: whenever the loop is between iterations and the level is not the
\* initial CALM, the directive composed for the current level has been
\* applied (its methods are the active ones, it has been counted) and its
\* 'threat_level_change' event has been delivered.
LevelHasItsResponse ==
    (BetweenIterations /\ level # CALM)
    => /\ engineMethods = BaseMethods(level)
       /\ mitigated = Len(history)
       /\ "new" \in DOMAIN lastNotify
       /\ lastNotify.new = level

\* C28: whenever the loop is between iterations, the methods active in the
\* confusion collaborator are the active_methods of the directive for the
\* current threat level, a just-constructed agent at CALM included.
EngineMethodsFollowLevel ==
    BetweenIterations => engineMethods = BaseMethods(level)

\* C29: every snapshot get_status returns while the loop runs and signals are
\* reported is consistent in itself: its active_methods are those of the
\* directive for its threat_level (none yet while no directive was composed
\* at CALM), and its recent_signals number min(10, total_signals).
StatusSnapshotConsistent ==
    \A s \in StatusIds :
        caller[s].returned
        => LET snap == caller[s].snap IN
           /\ \/ snap.methods = BaseMethods(snap.level)
              \/ snap.level = CALM /\ snap.methods = {}
           /\ snap.recent = (IF snap.total < RecentMax THEN snap.total
                             ELSE RecentMax)

\* the entries of the action log that record a profile rotation
RotationKinds == {"fingerprint_rotation", "scheduled_rotation"}
RotationEntries == {i \in DOMAIN actions : actions[i] \in RotationKinds}

\* C30: whenever the loop is between iterations the fingerprint_rotations
\* counter equals the number of profile rotations requested from the
\* fingerprint collaborator, which equals the number of
\* 'fingerprint_rotation' and 'scheduled_rotation' entries of the action
\* log; and an iteration that rotated while applying its directive does not
\* rotate again on schedule.
RotationsAccounted ==
    /\ [](BetweenIterations
          => /\ rotations = profiles
             /\ profiles = Cardinality(RotationEntries))
    /\ [][\A t \in LoopIds :
            (loop[t].pc = "sched" /\ loop'[t].pc # "sched"
                /\ profiles' # profiles)
            => "rotate" \notin loop[t].did]_vars

====
